---- MODULE Spec2Model ----
(***************************************************************************)
(* FFMC: worker pool (core/worker_pool.py), conversion orchestrator        *)
(* (core/orchestrator.py), state manager (persistence/state_manager.py)    *)
(* and conversion database (persistence/database.py).                      *)
(*                                                                         *)
(* The program runs on one asyncio event loop: the code between two awaits *)
(* of a coroutine is one atomic step, and the steps of different tasks     *)
(* interleave.  Every action below is one such step.                       *)
(***************************************************************************)
EXTENDS Integers, Sequences, FiniteSets, TLC

\* ------------------------------------------------------------------ bounds
MaxWorkers == 2        \* settings.concurrent_conversions of the modelled pool
MaxTasks == 3          \* submissions accepted by one pool
MaxShutdownCalls == 2  \* shutdown() calls made on one pool

MaxRuns == 2           \* invocations of the program (run or resume), one after another
MaxCallers == 2        \* concurrent callers of ConversionDatabase
MaxCalls == 3          \* mark_completed calls made on one database
MaxRecords == 2        \* rows of the conversions table
MaxResets == 1         \* clear_statistics calls made on one database

PathList == <<"a", "b">>        \* the video files, in the order the scanner returns them
Paths == {PathList[i] : i \in DOMAIN PathList}
JobPaths == Paths \cup {"c"}    \* the paths a client of the pool submits
PoolSizes == 1 .. MaxWorkers    \* the values of settings.concurrent_conversions
WorkerIds(n) == 0 .. (n - 1)
NoWorker == -1
NoTask == "-"

VARIABLES
    tasks,           \* asyncio tasks created by WorkerPool.submit, in creation order
    workers,         \* Worker.metrics and Worker.semaphore of every worker
    shutdown_event,  \* WorkerPool.shutdown_event
    active_tasks,    \* WorkerPool.active_tasks (indices into tasks)
    client_pc,       \* position of the coroutine that calls submit() and shutdown()
    sd_calls,        \* number of shutdown() calls made so far
    sd_wait,         \* the wait argument of the latest shutdown() call
    sd_snapshot,     \* the tasks gathered by wait_all in the latest shutdown() call
    fs,              \* the files state_file and state_file.with_suffix('.tmp')
    current_state,   \* StateManager.current_state
    sm,              \* the caller of StateManager: position inside save(), last load()
    db,              \* the tables videos, conversions and statistics of ConversionDatabase
    probe,           \* what CodecDetector.analyze_video finds for every file (input)
    ledger,          \* the callers of ConversionDatabase: their open transactions
    orch,            \* the orchestrator: position, flags and locals of run() / resume()
    hist             \* history of the execution (read by no action)

poolVars == <<tasks, workers, shutdown_event, active_tasks>>
clientVars == <<client_pc, sd_calls, sd_wait, sd_snapshot>>
storeVars == <<fs, current_state, sm>>
progVars == <<db, probe, ledger, orch, hist>>
vars == <<tasks, workers, shutdown_event, active_tasks,
          client_pc, sd_calls, sd_wait, sd_snapshot,
          fs, current_state, sm, db, probe, ledger, orch, hist>>

\* ------------------------------------------------------------ worker pool
\* WorkerMetrics() defaults and Semaphore(1) of a new Worker
NewWorker ==
    [is_busy |-> FALSE, current_task |-> NoTask,
     tasks_completed |-> 0, tasks_failed |-> 0, semaphore |-> 1]

\* the coroutine object created by submit(): _process_task before its first step
NewTask(p) ==
    [pc |-> "new", path |-> p, worker |-> NoWorker, result |-> "unset", encoder_calls |-> 0,
     outcome |-> "none"]

TaskIds == 1 .. Len(tasks)
Workers == DOMAIN workers

Min(S) == CHOOSE x \in S : \A y \in S : x <= y

\* _get_available_worker: the workers the for loop accepts
IdleWorkersAll(ws) == DOMAIN ws
IdleWorkers(ws) == {w \in DOMAIN ws : ~ws[w].is_busy}

\* _process_task: the shutdown test after _get_available_worker returned
ShutdownCheckOff(ev) == FALSE
ShutdownCheck(ev) == ev

\* Semaphore.locked()
SemLocked(wk) == wk.semaphore = 0

\* Worker.process, from the semaphore's acquisition to the await of the encoder
EnterProcess(wk, p) ==
    [wk EXCEPT !.semaphore = wk.semaphore - 1, !.is_busy = TRUE, !.current_task = p]

\* Worker.process, finally block and the release of the semaphore
ExitProcessStaysBusy(wk) ==
    [wk EXCEPT !.semaphore = wk.semaphore + 1]
ExitProcessKeepsTask(wk) ==
    [wk EXCEPT !.is_busy = FALSE, !.semaphore = wk.semaphore + 1]
ExitProcess(wk) ==
    [wk EXCEPT !.is_busy = FALSE, !.current_task = NoTask, !.semaphore = wk.semaphore + 1]

\* VideoEncoder.convert_video as seen by Worker.process:
\*   "ok"          the result dict is returned
\*   "larger"      skip_if_larger: the output is removed and None is returned
\*   "conv_error"  ConversionError is raised
\*   "unexpected"  any other exception (raised before convert_video's try block)
Outcomes == {"ok", "larger", "conv_error", "unexpected"}

\* Worker.process: the value returned for an encoder outcome
ProcessResult(o) == IF o = "ok" THEN "dict" ELSE "None"

\* Worker.process: the metrics after an encoder outcome
CountOutcomeAlways(wk, o) == [wk EXCEPT !.tasks_completed = wk.tasks_completed + 1]
CountOutcome(wk, o) ==
    IF o \in {"ok", "larger"}
    THEN [wk EXCEPT !.tasks_completed = wk.tasks_completed + 1]
    ELSE [wk EXCEPT !.tasks_failed = wk.tasks_failed + 1]

\* WorkerPool.submit
PoolSubmit(p) ==
    /\ tasks' = Append(tasks, NewTask(p))
    /\ active_tasks' = active_tasks \cup {Len(tasks) + 1}
    /\ UNCHANGED <<workers, shutdown_event>>

\* One step of _process_task for a task that has not reached the encoder:
\* _get_available_worker's loop, the shutdown test and the entry of Worker.process.
PoolTaskStep(t) ==
    /\ t \in TaskIds
    /\ tasks[t].pc \in {"new", "sleeping", "sem_wait"}
    /\ IF tasks[t].pc = "sem_wait"
       THEN \* resumed by Semaphore.release()
            /\ ~SemLocked(workers[tasks[t].worker])
            /\ workers' = [workers EXCEPT ![tasks[t].worker] = EnterProcess(@, tasks[t].path)]
            /\ tasks' = [tasks EXCEPT ![t].pc = "converting",
                                      ![t].encoder_calls = @ + 1]
            /\ UNCHANGED active_tasks
       ELSE IF ShutdownCheck(shutdown_event)
       THEN \* "Skipping ...: shutdown in progress"
            /\ tasks' = [tasks EXCEPT ![t].pc = "done", ![t].result = "None"]
            /\ active_tasks' = active_tasks \ {t}
            /\ UNCHANGED workers
       ELSE IF shutdown_event \/ IdleWorkers(workers) # {}
       THEN LET w == IF shutdown_event THEN 0 ELSE Min(IdleWorkers(workers)) IN
            IF SemLocked(workers[w])
            THEN /\ tasks' = [tasks EXCEPT ![t].pc = "sem_wait", ![t].worker = w]
                 /\ UNCHANGED <<workers, active_tasks>>
            ELSE /\ workers' = [workers EXCEPT ![w] = EnterProcess(@, tasks[t].path)]
                 /\ tasks' = [tasks EXCEPT ![t].pc = "converting", ![t].worker = w,
                                           ![t].encoder_calls = @ + 1]
                 /\ UNCHANGED active_tasks
       ELSE \* await asyncio.sleep(0.1)
            /\ tasks' = [tasks EXCEPT ![t].pc = "sleeping"]
            /\ UNCHANGED <<workers, active_tasks>>
    /\ UNCHANGED shutdown_event

\* The encoder invocation of task t ends with outcome o: the rest of Worker.process,
\* the task's completion and its done callback (active_tasks.discard).
PoolTaskFinish(t, o) ==
    /\ t \in TaskIds
    /\ tasks[t].pc = "converting"
    /\ workers' = [workers EXCEPT ![tasks[t].worker] = ExitProcess(CountOutcome(@, o))]
    /\ tasks' = [tasks EXCEPT ![t].pc = "done", ![t].result = ProcessResult(o),
                              ![t].outcome = o]
    /\ active_tasks' = active_tasks \ {t}
    /\ UNCHANGED shutdown_event

\* wait_all: gather(*active_tasks) has completed
WaitAllNoWait(snap) == TRUE
WaitAllDone(snap) == \A t \in snap : tasks[t].pc = "done"

\* ------------------------------------------------------------ state manager
\* A state is the pickled dict: the keys it has, the values of the four
\* collections (empty when the key is missing) and the value of 'version'.
CurrentVersion == 1    \* _default_state: 'version': 1
NoVersion == 0         \* the dict has no 'version' key
Content(kd, ks, pend, comp, fail, skip) ==
    [kind |-> kd, keys |-> ks, pending |-> pend, completed |-> comp, failed |-> fail,
     skipped |-> skip,
     version |-> IF "version" \in ks THEN CurrentVersion ELSE NoVersion]
Absent == Content("absent", {}, <<>>, {}, {}, {})     \* the file does not exist
Partial == Content("partial", {}, <<>>, {}, {}, {})   \* the beginning of a pickle only
NoState == Content("None", {}, <<>>, {}, {}, {})      \* the None that load() returns
Unreadable == Content("unreadable", {}, <<>>, {}, {}, {})  \* open() raises OSError
NotADict == Content("other", {}, <<>>, {}, {}, {})    \* the pickle of another object
\* a state file written by a release with another schema version
OtherVersion(st) == [st EXCEPT !.version = CurrentVersion + 1]

MkState(ks, pend, comp, fail, skip) == Content("state", ks, pend, comp, fail, skip)

\* StateManager._default_state
DefaultState ==
    MkState({"version", "created_at", "updated_at", "pending", "completed", "failed",
             "skipped", "job_metadata"}, <<>>, {}, {}, {})

\* the dict _execute_conversions passes to save(), with save()'s 'updated_at'
OrchestratorState(pend) == MkState({"pending", "timestamp", "updated_at"}, pend, {}, {}, {})

IsState(c) == c.kind = "state"

\* StateManager.load: the value returned for the content of state_file
LoadAny(c) == IF IsState(c) THEN c ELSE NoState
Load(c) == IF IsState(c) /\ "version" \in c.keys THEN c ELSE NoState

\* StateManager.save: where pickle.dump writes
TempFileInPlace == "state"
TempFile == "tmp"

\* StateManager.save: open(temp_file, 'wb') and the beginning of pickle.dump
WriteBegin(f) == [f EXCEPT ![TempFile] = Partial]
\* StateManager.save: pickle.dump and the close of the file
WriteEnd(f, st) == [f EXCEPT ![TempFile] = st]
\* StateManager.save: temp_file.replace(state_file)
Replace(f) == IF TempFile = "state" THEN f ELSE [state |-> f[TempFile], tmp |-> Absent]

\* StateManager.save without an I/O error: the files afterwards
SaveFiles(f, st) == Replace(WriteEnd(WriteBegin(f), st))

\* StateManager.save: an I/O error becomes FileSystemError
SaveSwallows(ok) == FALSE
SaveRaises(ok) == ~ok

RemoveAll(seq, x) == SelectSeq(seq, LAMBDA y : y # x)
\* list.pop(0) in the place of list.remove
RemoveHead(seq, x) == IF seq = <<>> THEN seq ELSE Tail(seq)
\* list.remove: the first occurrence
RemoveFirst(seq, x) ==
    LET idx == {i \in DOMAIN seq : seq[i] = x} IN
    IF idx = {} THEN seq
    ELSE [i \in 1 .. (Len(seq) - 1) |-> IF i < Min(idx) THEN seq[i] ELSE seq[i + 1]]

\* StateManager.mark_completed up to save(): the new current_state, or KeyError
\* when the dict has no 'completed' (or no 'failed') key; 'pending' is changed first
MarkCompletedState(st, p) ==
    LET st1 == [st EXCEPT !.pending = RemoveFirst(st.pending, p)] IN
    IF {"completed", "failed"} \subseteq st.keys
    THEN [exc |-> "none",
          state |-> [st1 EXCEPT !.completed = @ \cup {p}, !.failed = @ \ {p}]]
    ELSE [exc |-> "KeyError", state |-> st1]

\* StateManager.mark_failed up to save(): KeyError when the dict has no 'failed'
\* or no 'job_metadata' key; the error text and its timestamp are not modelled
MarkFailedState(st, p) ==
    LET st1 == [st EXCEPT !.pending = RemoveFirst(st.pending, p)] IN
    IF "failed" \notin st.keys THEN [exc |-> "KeyError", state |-> st1]
    ELSE LET st2 == [st1 EXCEPT !.failed = @ \cup {p}] IN
         [exc |-> IF "job_metadata" \in st.keys THEN "none" ELSE "KeyError", state |-> st2]

\* StateManager.mark_skipped up to save()
MarkSkippedState(st, p) ==
    LET st1 == [st EXCEPT !.pending = RemoveFirst(st.pending, p)] IN
    IF "skipped" \notin st.keys THEN [exc |-> "KeyError", state |-> st1]
    ELSE LET st2 == [st1 EXCEPT !.skipped = @ \cup {p}] IN
         [exc |-> IF "job_metadata" \in st.keys THEN "none" ELSE "KeyError", state |-> st2]

\* the three marking operations of the StateManager
MarkOps == {"mark_completed", "mark_failed", "mark_skipped"}
MarkState(op, st, p) ==
    CASE op = "mark_completed" -> MarkCompletedState(st, p)
      [] op = "mark_failed" -> MarkFailedState(st, p)
      [] op = "mark_skipped" -> MarkSkippedState(st, p)

\* nothing has been saved or loaded yet
NewCaller ==
    [pc |-> "idle", prev |-> Absent, new |-> Absent, loaded |-> NoState, crashed |-> "no",
     raised |-> FALSE, op |-> "none", path |-> NoTask, entry |-> FALSE,
     again |-> FALSE]

StoreInit ==
    /\ fs = [state |-> Absent, tmp |-> Absent]
    /\ current_state = DefaultState
    /\ sm = NewCaller

\* ---------------------------------------------------------------- database
\* CodecDetector.analyze_video: the analysis of a file, or its failure
AnalysisFailed == [ok |-> FALSE, needs_conversion |-> FALSE, file_size |-> 0]
\* no row in videos / None in the results of _analyze_videos
NoAnalysis == AnalysisFailed
NeedsConversion(sz) == [ok |-> TRUE, needs_conversion |-> TRUE, file_size |-> sz]
AlreadyOptimal(sz) == [ok |-> TRUE, needs_conversion |-> FALSE, file_size |-> sz]
FileSizes == {1, 2}
Probes == {AnalysisFailed} \cup {NeedsConversion(z) : z \in FileSizes} \cup {AlreadyOptimal(1)}

\* _initialize_database: empty tables and the single statistics row
NewDatabase ==
    [videos |-> [p \in Paths |-> NoAnalysis],
     conversions |-> <<>>,
     statistics |-> [successful_conversions |-> 0, failed_conversions |-> 0,
                     skipped_conversions |-> 0, total_original_size |-> 0,
                     total_converted_size |-> 0, total_space_saved |-> 0]]

\* ConversionDatabase.store_analysis: INSERT OR REPLACE INTO videos
StoreAnalysis(d, p, a) == [d EXCEPT !.videos[p] = a]

\* ConversionDatabase.get_analysis
GetAnalysis(d, p) == d.videos[p]

\* UPDATE conversions SET status = s WHERE file_path = p AND status = 'started'
UpdateStarted(convs, p, s) ==
    [i \in DOMAIN convs |->
        IF convs[i].file_path = p /\ convs[i].status = "started"
        THEN [convs[i] EXCEPT !.status = s] ELSE convs[i]]

\* ConversionDatabase.mark_started
MarkStarted(d, p) ==
    [d EXCEPT !.conversions = Append(@, [file_path |-> p, status |-> "started"])]

\* ConversionDatabase.mark_completed: UPDATE conversions
CompleteRow(d, p) == [d EXCEPT !.conversions = UpdateStarted(@, p, "completed")]
\* ConversionDatabase.mark_completed: UPDATE statistics
CompleteStatistics(d, original_size, converted_size) ==
    [d EXCEPT !.statistics.successful_conversions = @ + 1,
              !.statistics.total_original_size = @ + original_size,
              !.statistics.total_converted_size = @ + converted_size,
              !.statistics.total_space_saved = @ + (original_size - converted_size)]
\* ConversionDatabase.mark_completed
DbMarkCompleted(d, p, original_size, converted_size) ==
    CompleteStatistics(CompleteRow(d, p), original_size, converted_size)

\* ConversionDatabase.mark_failed
DbMarkFailed(d, p) ==
    [d EXCEPT !.conversions = UpdateStarted(@, p, "failed"),
              !.statistics.failed_conversions = @ + 1]

\* ConversionDatabase.mark_skipped
DbMarkSkipped(d, p) ==
    [d EXCEPT !.conversions = UpdateStarted(@, p, "skipped"),
              !.statistics.skipped_conversions = @ + 1]

\* ConversionDatabase.clear_statistics
ClearStatistics(d) == [d EXCEPT !.statistics = NewDatabase.statistics]

\* ConversionDatabase.is_converted
CompletedRecords(d, p) ==
    {i \in DOMAIN d.conversions :
        d.conversions[i].file_path = p /\ d.conversions[i].status = "completed"}
IsConvertedNever(d, p) == FALSE
IsConverted(d, p) == Cardinality(CompletedRecords(d, p)) > 0

\* ------------------------------------------------------------- orchestrator
\* StateManager.save as called with I/O result io: the files afterwards
IoResults == {"ok", "open_fails", "dump_fails", "replace_fails"}
SaveOutcome(f, st, io) ==
    CASE io = "ok" -> SaveFiles(f, st)
      [] io = "open_fails" -> f
      [] io = "dump_fails" -> WriteBegin(f)
      [] OTHER -> WriteEnd(WriteBegin(f), st)

\* list.sort(key=file_size, reverse=True): descending and stable
RECURSIVE InsertDesc(_, _, _)
InsertDesc(sorted, x, key) ==
    IF sorted = <<>> THEN <<x>>
    ELSE IF key[Head(sorted)] >= key[x]
         THEN <<Head(sorted)>> \o InsertDesc(Tail(sorted), x, key)
         ELSE <<x>> \o sorted
SortNone(seq, key) == seq
RECURSIVE SortDesc(_, _)
SortDesc(seq, key) ==
    IF seq = <<>> THEN <<>>
    ELSE InsertDesc(SortDesc(SubSeq(seq, 1, Len(seq) - 1), key), seq[Len(seq)], key)

\* _analyze_videos: the results dict (None for a failed analysis)
AnalyzeVideos(files) ==
    [p \in Paths |-> IF (\E i \in DOMAIN files : files[i] = p) /\ probe[p].ok
                     THEN probe[p] ELSE NoAnalysis]

\* _filter_conversions: is the file selected
Selected(d, frc, res, p) ==
    /\ res[p] # NoAnalysis
    /\ ~(~frc /\ IsConverted(d, p))
    /\ res[p].needs_conversion

\* _filter_conversions
FilterConversions(d, frc, files, res) ==
    SortDesc(SelectSeq(files, LAMBDA p : Selected(d, frc, res, p)),
             [p \in Paths |-> res[p].file_size])

\* resume: the jobs rebuilt from the pending list and the videos table
ResumeConversions(d, pend) == SelectSeq(pend, LAMBDA p : GetAnalysis(d, p) # NoAnalysis)

\* WorkerPool.submit: the value a submit() coroutine returns, which gather collects
SubmitReturns(t) == [kind |-> "Task", id |-> t]

\* the output size in the result dict of convert_video
OutputSize(p) == 1

\* _execute_conversions: one iteration of the loop over zip(conversions, results)
RecordResult(acc, p, size, r, io) ==
    IF r.kind = "Exception"
    THEN [acc EXCEPT !.db = DbMarkFailed(@, p), !.failed = @ + 1,
                     !.db_marks[p] = @ + 1]
    ELSE IF r.kind = "None"
    THEN [acc EXCEPT !.skipped = @ + 1]
    ELSE IF r.kind # "dict"
    THEN \* result['output_size'] on an asyncio.Task
         [acc EXCEPT !.exc = "TypeError"]
    ELSE LET m == MarkCompletedState(acc.current_state, p)
             a1 == [acc EXCEPT !.db = DbMarkCompleted(@, p, size, OutputSize(p)),
                               !.successful = @ + 1,
                               !.db_marks[p] = @ + 1,
                               !.current_state = m.state]
         IN IF m.exc # "none" THEN [a1 EXCEPT !.exc = m.exc]
            ELSE IF SaveRaises(io = "ok")
            THEN [a1 EXCEPT !.fs = SaveOutcome(@, m.state, io), !.exc = "FileSystemError"]
            ELSE [a1 EXCEPT !.fs = SaveOutcome(@, m.state, io), !.sm_marks[p] = @ + 1]

\* _execute_conversions: the loop over zip(conversions, results), from item i
RECURSIVE RecordResults(_, _, _, _, _, _)
RecordResults(acc, convs, sizes, res, i, io) ==
    IF i > Len(convs) \/ acc.exc # "none" THEN acc
    ELSE RecordResults(RecordResult(acc, convs[i], sizes[convs[i]], res[i], io),
                       convs, sizes, res, i + 1, io)

NoMarks == [p \in Paths |-> 0]

\* ConversionOrchestrator.__init__ and the locals of run() / resume()
NewOrchestrator ==
    [pc |-> "idle", mode |-> "run", force |-> FALSE, dry_run |-> FALSE, run_no |-> 0,
     video_files |-> <<>>, analysis_results |-> [p \in Paths |-> NoAnalysis],
     conversions |-> <<>>, results |-> <<>>, exc |-> "none", ret |-> "none",
     interrupted |-> FALSE, successful |-> 0, failed |-> 0, skipped |-> 0,
     summary |-> FALSE]

NewHistory ==
    [enc_ok |-> {}, enc_ok_prev |-> {}, enc_failed |-> {}, filtered |-> FALSE,
     int_executing |-> {}, int_queued |-> {},
     prev_int_executing |-> {}, prev_int_queued |-> {}, prev_interrupted |-> FALSE,
     sm_marks |-> NoMarks, db_marks |-> NoMarks]

\* no caller has a transaction open
NoCaller == 0
Callers == 1 .. MaxCallers
NoTransaction ==
    [pc |-> "idle", path |-> NoTask, original_size |-> 0, converted_size |-> 0,
     txn |-> NewDatabase]
NewLedger ==
    [writer |-> NoCaller, calls |-> [c \in Callers |-> NoTransaction],
     returned |-> 0, saved |-> 0, resets |-> 0, made |-> 0]

\* sqlite3, isolation_level DEFERRED: the first write statement of a
\* transaction takes the write lock of the database file
CanWriteAlways(l) == TRUE
CanWrite(l) == l.writer = NoCaller

ProgInit ==
    /\ ledger = NewLedger
    /\ db = NewDatabase
    /\ orch = NewOrchestrator
    /\ hist = NewHistory

\* ------------------------------------------------- a client of the pool
Submit(p) ==
    /\ client_pc = "ready"
    /\ Len(tasks) < MaxTasks
    /\ \A t \in TaskIds : tasks[t].path # p   \* a path occurs once in a batch
    /\ PoolSubmit(p)
    /\ UNCHANGED <<clientVars, storeVars, progVars>>

\* the event loop runs the first steps of new tasks in the order of their creation
TaskStep(t) ==
    /\ t \in TaskIds
    /\ tasks[t].pc = "new" => \A u \in 1 .. (t - 1) : tasks[u].pc # "new"
    /\ PoolTaskStep(t)
    /\ UNCHANGED <<clientVars, storeVars, progVars>>

TaskFinish(t, o) == PoolTaskFinish(t, o) /\ UNCHANGED <<clientVars, storeVars, progVars>>

\* WorkerPool.shutdown up to the await in wait_all (or to its return)
ShutdownCall(wait) ==
    /\ client_pc = "ready"
    /\ sd_calls < MaxShutdownCalls
    /\ shutdown_event' = TRUE
    /\ sd_calls' = sd_calls + 1
    /\ sd_wait' = wait
    /\ sd_snapshot' = IF wait THEN active_tasks ELSE {}
    /\ client_pc' = IF wait /\ active_tasks # {} THEN "shutdown_wait" ELSE "ready"
    /\ UNCHANGED <<tasks, workers, active_tasks, storeVars, progVars>>

\* WorkerPool.shutdown: the gather of wait_all completes and shutdown returns
ShutdownReturn ==
    /\ client_pc = "shutdown_wait"
    /\ WaitAllDone(sd_snapshot)
    /\ client_pc' = "ready"
    /\ UNCHANGED <<poolVars, sd_calls, sd_wait, sd_snapshot, storeVars, progVars>>

\* WorkerPool.__init__
PoolInit(n) ==
    /\ tasks = <<>>
    /\ workers = [w \in WorkerIds(n) |-> NewWorker]
    /\ shutdown_event = FALSE
    /\ active_tasks = {}
    /\ client_pc = "ready"
    /\ sd_calls = 0
    /\ sd_wait = FALSE
    /\ sd_snapshot = {}

Init ==
    /\ \E n \in PoolSizes : PoolInit(n)
    /\ StoreInit
    /\ ProgInit
    /\ probe = [p \in Paths |-> NeedsConversion(1)]

Next ==
    \/ \E p \in JobPaths : Submit(p)
    \/ \E t \in 1 .. MaxTasks : TaskStep(t)
    \/ \E t \in 1 .. MaxTasks, o \in Outcomes : TaskFinish(t, o)
    \/ \E wait \in BOOLEAN : ShutdownCall(wait)
    \/ ShutdownReturn

Spec == Init /\ [][Next]_vars

\* the jobs handed to Worker.process of worker w and not yet returned from it
Attributed(w) ==
    {t \in TaskIds : tasks[t].pc \in {"sem_wait", "converting"} /\ tasks[t].worker = w}
Executing == {t \in TaskIds : tasks[t].pc = "converting"}
BusyWorkers == {w \in Workers : workers[w].is_busy}
NotStarted(tk) == tk.pc \in {"new", "sleeping", "sem_wait"}

\* ------------------------------------------------------------ the program
\* One invocation of the program after another (cli.async_main): a new
\* ConversionOrchestrator, WorkerPool and StateManager over the files and the
\* database the previous invocation left.
PathsOf(S) == {tasks[t].path : t \in S}
Range(seq) == {seq[i] : i \in DOMAIN seq}

\* the exception handlers of run(): where the orchestrator continues after exception e
OrchRaiseRescan(o, e) == [o EXCEPT !.exc = e, !.pc = "scan"]
OrchRaise(o, e) ==
    IF o.mode = "run"
    THEN [o EXCEPT !.exc = e, !.pc = "cleanup"]
    ELSE [o EXCEPT !.exc = e, !.pc = "returned", !.ret = "raised"]

PyBool(b) == IF b THEN "True" ELSE "False"

\* run(): a return statement inside the try block, followed by the finally block
OrchReturn(o, v) ==
    IF o.mode = "run"
    THEN [o EXCEPT !.ret = PyBool(v), !.pc = "finalize"]
    ELSE [o EXCEPT !.ret = PyBool(v), !.pc = "returned"]

RBegin(mode, frc, dry, n) ==
    /\ orch.pc \in {"idle", "returned"}
    /\ orch.run_no < MaxRuns
    /\ tasks' = <<>>
    /\ workers' = [w \in WorkerIds(n) |-> NewWorker]
    /\ shutdown_event' = FALSE
    /\ active_tasks' = {}
    /\ sd_calls' = 0
    /\ sd_wait' = FALSE
    /\ sd_snapshot' = {}
    /\ current_state' = DefaultState
    /\ orch' = [NewOrchestrator EXCEPT !.pc = IF mode = "run" THEN "scan" ELSE "load",
                                       !.mode = mode, !.force = frc, !.dry_run = dry,
                                       !.run_no = orch.run_no + 1]
    /\ hist' = [hist EXCEPT !.enc_ok = {}, !.enc_ok_prev = @ \cup hist.enc_ok,
                            !.enc_failed = {},
                            !.filtered = FALSE,
                            !.prev_interrupted = orch.interrupted,
                            !.int_queued = {}, !.prev_int_queued = hist.int_queued,
                            !.int_executing = {},
                            !.prev_int_executing = hist.int_executing,
                            !.sm_marks = NoMarks, !.db_marks = NoMarks]
    /\ UNCHANGED <<client_pc, fs, sm, db, probe, ledger>>

\* run(): _scan_paths
RScan(found) ==
    /\ orch.pc = "scan"
    /\ orch' = IF found
               THEN [orch EXCEPT !.video_files = PathList, !.pc = "analyze"]
               ELSE OrchReturn(orch, FALSE)
    /\ UNCHANGED <<poolVars, clientVars, storeVars, db, probe, ledger, hist>>

\* run(): _analyze_videos, with store_analysis for every analysis that succeeded
RAnalyze ==
    /\ orch.pc = "analyze"
    /\ LET res == AnalyzeVideos(orch.video_files) IN
       /\ orch' = [orch EXCEPT !.analysis_results = res, !.pc = "filter"]
       /\ db' = [db EXCEPT !.videos =
                    [p \in Paths |-> IF res[p] # NoAnalysis THEN res[p] ELSE db.videos[p]]]
    /\ UNCHANGED <<poolVars, clientVars, storeVars, probe, ledger, hist>>

\* run(): _filter_conversions, the test for an empty selection and the dry run
RFilter ==
    /\ orch.pc = "filter"
    /\ LET convs == FilterConversions(db, orch.force, orch.video_files, orch.analysis_results)
           o1 == [orch EXCEPT !.conversions = convs]
       IN orch' = IF convs = <<>> \/ orch.dry_run
                  THEN OrchReturn(o1, TRUE)
                  ELSE [o1 EXCEPT !.pc = "save"]
    /\ hist' = [hist EXCEPT !.filtered = TRUE]
    /\ UNCHANGED <<poolVars, clientVars, storeVars, db, probe, ledger>>

\* resume(): load the state and rebuild the jobs
RLoad ==
    /\ orch.pc = "load"
    /\ LET state == Load(fs.state) IN
       IF state = NoState
       THEN /\ orch' = OrchReturn(orch, FALSE)
            /\ UNCHANGED current_state
       ELSE /\ current_state' = state
            /\ LET convs == ResumeConversions(db, state.pending) IN
               orch' = IF state.pending = <<>> \/ convs = <<>>
                       THEN OrchReturn(orch, FALSE)
                       ELSE [orch EXCEPT !.conversions = convs, !.pc = "save",
                                         !.analysis_results = db.videos]
    /\ UNCHANGED <<poolVars, clientVars, fs, sm, db, probe, ledger, hist>>

\* _execute_conversions: state_manager.save({'pending': ..., 'timestamp': ...})
RSave(io) ==
    /\ orch.pc = "save"
    /\ LET st == OrchestratorState(orch.conversions) IN
       /\ current_state' = st
       /\ fs' = SaveOutcome(fs, st, io)
       /\ orch' = IF SaveRaises(io = "ok")
                  THEN OrchRaise(orch, "FileSystemError")
                  ELSE [orch EXCEPT !.pc = "submit"]
    /\ UNCHANGED <<poolVars, clientVars, sm, db, probe, ledger, hist>>

\* _execute_conversions: one of the gathered submit() coroutines runs
RSubmit ==
    /\ orch.pc = "submit"
    /\ Len(tasks) < Len(orch.conversions)
    /\ PoolSubmit(orch.conversions[Len(tasks) + 1])
    /\ UNCHANGED <<clientVars, storeVars, progVars>>

\* _execute_conversions: the loop over the results, the summary and the return
RProcess(io) ==
    /\ orch.pc = "process"
    /\ LET acc0 == [db |-> db, current_state |-> current_state, fs |-> fs,
                    successful |-> 0, failed |-> 0, skipped |-> 0, exc |-> "none",
                    sm_marks |-> hist.sm_marks, db_marks |-> hist.db_marks]
           sizes == [p \in Paths |-> orch.analysis_results[p].file_size]
           acc == RecordResults(acc0, orch.conversions, sizes, orch.results, 1, io)
           o1 == [orch EXCEPT !.successful = acc.successful, !.failed = acc.failed,
                              !.skipped = acc.skipped]
       IN /\ db' = acc.db
          /\ current_state' = acc.current_state
          /\ fs' = acc.fs
          /\ hist' = [hist EXCEPT !.sm_marks = acc.sm_marks, !.db_marks = acc.db_marks]
          /\ orch' = IF acc.exc # "none" THEN OrchRaise(o1, acc.exc)
                     ELSE OrchReturn([o1 EXCEPT !.summary = TRUE], acc.failed = 0)
    /\ UNCHANGED <<poolVars, clientVars, sm, probe, ledger>>

\* The event loop runs ready callbacks in FIFO order: the first step of every
\* task created by the gathered submit() coroutines runs after all of them, in
\* creation order, and before gather() resumes the orchestrator.
FirstStepsDone == \A t \in TaskIds : tasks[t].pc # "new"
FirstStepTurn(t) ==
    tasks[t].pc = "new" =>
        /\ orch.pc = "submit" => Len(tasks) = Len(orch.conversions)
        /\ \A u \in 1 .. (t - 1) : tasks[u].pc # "new"

\* run() is between two awaits: no other callback of the event loop runs
OrchRunning == orch.pc \in {"cleanup", "finalize"}

RTaskStep(t) ==
    /\ t \in TaskIds
    /\ ~OrchRunning
    /\ FirstStepTurn(t)
    /\ PoolTaskStep(t)
    /\ UNCHANGED <<clientVars, storeVars, progVars>>

\* _execute_conversions: gather(*tasks) returns what the submit() coroutines returned
RGather ==
    /\ orch.pc = "submit"
    /\ Len(tasks) = Len(orch.conversions)
    /\ FirstStepsDone
    /\ orch' = [orch EXCEPT !.results = [i \in DOMAIN orch.conversions |-> SubmitReturns(i)],
                            !.pc = "process"]
    /\ UNCHANGED <<poolVars, clientVars, storeVars, db, probe, ledger, hist>>

RTaskFinish(t, o) ==
    /\ ~OrchRunning
    /\ PoolTaskFinish(t, o)
    /\ hist' = IF o = "ok" THEN [hist EXCEPT !.enc_ok = @ \cup {tasks[t].path}]
               ELSE IF o \in {"conv_error", "unexpected"}
               THEN [hist EXCEPT !.enc_failed = @ \cup {tasks[t].path}]
               ELSE hist
    /\ UNCHANGED <<clientVars, storeVars, db, probe, ledger, orch>>

\* the statement after _cleanup() / _finalize() returned
AfterShutdown(o) ==
    IF o.pc \in {"cleanup", "cleanup_wait"}
    THEN [o EXCEPT !.pc = "finalize", !.ret = PyBool(FALSE)]
    ELSE [o EXCEPT !.pc = "returned"]

\* _cleanup and _finalize: worker_pool.shutdown() up to the await in wait_all
RShutdownCall ==
    /\ orch.pc \in {"cleanup", "finalize"}
    /\ shutdown_event' = TRUE
    /\ sd_calls' = sd_calls + 1
    /\ sd_wait' = TRUE
    /\ sd_snapshot' = active_tasks
    /\ orch' = IF active_tasks = {} THEN AfterShutdown(orch)
               ELSE [orch EXCEPT !.pc = IF orch.pc = "cleanup" THEN "cleanup_wait"
                                        ELSE "finalize_wait"]
    /\ UNCHANGED <<tasks, workers, active_tasks, client_pc, storeVars, db, probe, ledger, hist>>

\* _cleanup and _finalize: the gather of wait_all completes
RShutdownReturn ==
    /\ orch.pc \in {"cleanup_wait", "finalize_wait"}
    /\ WaitAllDone(sd_snapshot)
    /\ orch' = AfterShutdown(orch)
    /\ sd_snapshot' = {}
    /\ UNCHANGED <<poolVars, client_pc, sd_calls, sd_wait, storeVars, db, probe, ledger, hist>>

\* KeyboardInterrupt is raised in run(): inside the try block it is handled by
\* "except KeyboardInterrupt"; inside the handler of another exception (while
\* _cleanup waits) it leaves run() through the finally block.
RInterrupt ==
    /\ orch.mode = "run"
    /\ ~orch.interrupted
    /\ orch.pc \in {"scan", "analyze", "filter", "save", "submit", "process", "cleanup_wait"}
    /\ orch' = IF orch.pc = "cleanup_wait"
               THEN [orch EXCEPT !.interrupted = TRUE, !.exc = "KeyboardInterrupt",
                                 !.pc = "finalize", !.ret = "raised"]
               ELSE [orch EXCEPT !.interrupted = TRUE, !.exc = "KeyboardInterrupt",
                                 !.pc = "cleanup"]
    /\ hist' = [hist EXCEPT
                  !.int_executing = PathsOf(Executing),
                  !.int_queued = Range(orch.conversions) \
                                    PathsOf({t \in TaskIds : ~NotStarted(tasks[t])})]
    /\ UNCHANGED <<poolVars, clientVars, storeVars, db, probe, ledger>>

InitRun ==
    /\ PoolInit(1)
    /\ StoreInit
    /\ ProgInit
    /\ probe \in [Paths -> Probes]

NextRun ==
    \/ \E mode \in {"run", "resume"}, frc \in BOOLEAN, dry \in BOOLEAN, n \in PoolSizes :
          (mode = "resume" => ~frc /\ ~dry) /\ RBegin(mode, frc, dry, n)
    \/ \E found \in BOOLEAN : RScan(found)
    \/ RAnalyze
    \/ RFilter
    \/ RLoad
    \/ \E io \in IoResults : RSave(io)
    \/ RSubmit
    \/ RGather
    \/ \E io \in IoResults : RProcess(io)
    \/ \E t \in 1 .. Len(PathList) : RTaskStep(t)
    \/ \E t \in 1 .. Len(PathList), o \in Outcomes : RTaskFinish(t, o)
    \/ RShutdownCall
    \/ RShutdownReturn
    \/ RInterrupt

SpecRun == InitRun /\ [][NextRun]_vars

\* ------------------------------------------- a caller of the state manager
\* the states a caller passes to save(): dicts made by _default_state with their
\* collections filled, and the dict _execute_conversions builds
PendingLists == {<<>>} \cup {<<p>> : p \in Paths}
                       \cup {<<pq[1], pq[2]>> : pq \in {x \in Paths \X Paths : x[1] # x[2]}}
SaveStates ==
    {MkState(DefaultState.keys, pend, comp, {}, {}) :
        pend \in PendingLists, comp \in {{}, {PathList[1]}}}
    \cup {OrchestratorState(pend) : pend \in PendingLists}

\* StateManager.save: the assignment of current_state and open(temp_file, 'wb')
SaveBegin(st, ok) ==
    /\ sm.pc = "idle"
    /\ current_state' = st
    /\ fs' = IF ok THEN WriteBegin(fs) ELSE fs
    /\ sm' = [sm EXCEPT !.pc = IF ok THEN "writing" ELSE "idle",
                        !.prev = fs.state, !.new = st, !.loaded = NoState,
                        !.crashed = "no", !.raised = SaveRaises(ok)]
    /\ UNCHANGED <<poolVars, clientVars, progVars>>

\* StateManager.save: pickle.dump into the open file and its close
SaveDump(ok) ==
    /\ sm.pc = "writing"
    /\ fs' = IF ok THEN WriteEnd(fs, current_state) ELSE fs
    /\ sm' = [sm EXCEPT !.pc = IF ok THEN "written" ELSE "idle", !.raised = SaveRaises(ok)]
    /\ UNCHANGED <<poolVars, clientVars, current_state, progVars>>

\* StateManager.save: temp_file.replace(state_file)
SaveReplace(ok) ==
    /\ sm.pc = "written"
    /\ fs' = IF ok THEN Replace(fs) ELSE fs
    /\ sm' = [sm EXCEPT !.pc = "idle", !.raised = SaveRaises(ok)]
    /\ UNCHANGED <<poolVars, clientVars, current_state, progVars>>

\* the process dies inside save(); the next process constructs a StateManager
Crash ==
    /\ sm.pc \in {"writing", "written"}
    /\ current_state' = DefaultState
    /\ sm' = [sm EXCEPT !.pc = "idle", !.crashed = sm.pc]
    /\ UNCHANGED <<poolVars, clientVars, fs, progVars>>

\* StateManager.load
LoadCall ==
    /\ sm.pc = "idle"
    /\ LET state == Load(fs.state) IN
       /\ current_state' = IF state = NoState THEN current_state ELSE state
       /\ sm' = [sm EXCEPT !.loaded = state]
    /\ UNCHANGED <<poolVars, clientVars, fs, progVars>>

InitStore ==
    /\ PoolInit(1)
    /\ StoreInit
    /\ ProgInit
    /\ probe = [p \in Paths |-> NeedsConversion(1)]

NextStore ==
    \/ \E st \in SaveStates \cup {current_state}, ok \in BOOLEAN : SaveBegin(st, ok)
    \/ \E ok \in BOOLEAN : SaveDump(ok)
    \/ \E ok \in BOOLEAN : SaveReplace(ok)
    \/ Crash
    \/ LoadCall

SpecStore == InitStore /\ [][NextStore]_vars

\* --------------------------------------- a caller of the marking operations
\* the states written at the start of a batch: a full state, or the dict of
\* _execute_conversions, with the files of the batch pending
BatchStates ==
    {MkState(DefaultState.keys, pend, {}, {}, {}) : pend \in PendingLists}
    \cup {OrchestratorState(pend) : pend \in PendingLists}

\* the I/O outcomes of a save() made by this caller
MarkIoResults == {"ok", "open_fails", "dump_fails"}

\* StateManager.save(state), the whole call
SaveCall(st, io) ==
    /\ current_state' = st
    /\ fs' = SaveOutcome(fs, st, io)
    /\ sm' = [sm EXCEPT !.raised = SaveRaises(io = "ok"), !.op = "save", !.loaded = NoState,
                        !.path = NoTask, !.entry = FALSE,
                        !.again = FALSE]
    /\ UNCHANGED <<poolVars, clientVars, progVars>>

\* mark_completed, mark_failed or mark_skipped of a path, the whole call: the
\* changes of current_state, then save()
MarkCall(op, p, io) ==
    /\ LET m == MarkState(op, current_state, p) IN
       /\ current_state' = m.state
       /\ fs' = IF m.exc = "none" THEN SaveOutcome(fs, m.state, io) ELSE fs
       /\ sm' = [sm EXCEPT !.raised = m.exc # "none" \/ SaveRaises(io = "ok"),
                           !.loaded = NoState,
                           !.op = op, !.path = p, !.entry = TRUE,
                           !.again = sm.entry /\ sm.op = op /\ sm.path = p]
    /\ UNCHANGED <<poolVars, clientVars, progVars>>

\* StateManager.load, the whole call
LoadStateCall ==
    /\ LET state == Load(fs.state) IN
       /\ current_state' = IF state = NoState THEN current_state ELSE state
       /\ sm' = [sm EXCEPT !.raised = FALSE, !.op = "load", !.path = NoTask,
                           !.entry = FALSE, !.again = FALSE, !.loaded = state]
    /\ UNCHANGED <<poolVars, clientVars, fs, progVars>>

NextMarks ==
    \/ \E st \in BatchStates, io \in MarkIoResults : SaveCall(st, io)
    \/ \E op \in MarkOps, p \in Paths, io \in MarkIoResults : MarkCall(op, p, io)
    \/ LoadStateCall

SpecMarks == InitStore /\ [][NextMarks]_vars

\* ------------------------------------------------ load() of any state file
\* what load() can find at the path of the state file
StateFiles ==
    {Absent, Unreadable, Partial, NotADict}
    \cup SaveStates
    \cup {OtherVersion(st) : st \in {x \in SaveStates : "version" \in x.keys}}

\* the state file is put in place before load() is called
FileWritten(c) ==
    /\ fs' = [fs EXCEPT !.state = c]
    /\ sm' = [sm EXCEPT !.op = "none", !.loaded = NoState]
    /\ UNCHANGED <<poolVars, clientVars, current_state, progVars>>

NextLoad ==
    \/ \E c \in StateFiles : FileWritten(c)
    \/ LoadStateCall

SpecLoad == InitStore /\ [][NextLoad]_vars

\* --------------------------------------------- callers of the database
OpenCalls == {c \in Callers : ledger.calls[c].pc # "idle"}

\* original and converted size of a conversion that shrinks the file and of one
\* that makes it larger (skip_if_larger switched off)
SizePairs == {<<2, 1>>, <<1, 2>>}

\* the callers work until _filter_conversions reads the database they leave
Recording == orch.pc = "idle"

\* the calls made to the database so far
CallsMade == ledger.made

\* ConversionDatabase.mark_started
DbMarkStarted(p) ==
    /\ Recording
    /\ CanWrite(ledger)
    /\ GetAnalysis(db, p) # NoAnalysis
    /\ Len(db.conversions) < MaxRecords
    /\ db' = MarkStarted(db, p)
    /\ UNCHANGED <<poolVars, clientVars, storeVars, probe, ledger, orch, hist>>

\* ConversionDatabase.mark_failed (one transaction)
MarkFailedCall(p) ==
    /\ Recording
    /\ CanWrite(ledger)
    /\ CallsMade < MaxCalls
    /\ db' = DbMarkFailed(db, p)
    /\ ledger' = [ledger EXCEPT !.made = @ + 1]
    /\ UNCHANGED <<poolVars, clientVars, storeVars, probe, orch, hist>>

\* ConversionDatabase.mark_skipped (one transaction)
MarkSkippedCall(p) ==
    /\ Recording
    /\ CanWrite(ledger)
    /\ CallsMade < MaxCalls
    /\ db' = DbMarkSkipped(db, p)
    /\ ledger' = [ledger EXCEPT !.made = @ + 1]
    /\ UNCHANGED <<poolVars, clientVars, storeVars, probe, orch, hist>>

\* ConversionDatabase.clear_statistics (one transaction)
ClearStatisticsCall ==
    /\ Recording
    /\ CanWrite(ledger)
    /\ ledger.resets < MaxResets
    /\ CallsMade < MaxCalls
    /\ db' = ClearStatistics(db)
    /\ ledger' = [ledger EXCEPT !.returned = 0, !.saved = 0, !.resets = @ + 1,
                                 !.made = @ + 1]
    /\ UNCHANGED <<poolVars, clientVars, storeVars, probe, orch, hist>>

\* ConversionDatabase.mark_completed: the connection and UPDATE conversions
MarkCompletedBegin(c, p, original_size, converted_size) ==
    /\ Recording
    /\ ledger.calls[c].pc = "idle"
    /\ CallsMade < MaxCalls
    /\ CanWrite(ledger)
    /\ ledger' = [ledger EXCEPT
                    !.writer = c,
                    !.made = @ + 1,
                    !.calls[c] = [pc |-> "row", path |-> p,
                                  original_size |-> original_size,
                                  converted_size |-> converted_size,
                                  txn |-> CompleteRow(db, p)]]
    /\ UNCHANGED <<poolVars, clientVars, storeVars, db, probe, orch, hist>>

\* ConversionDatabase.mark_completed: UPDATE statistics
MarkCompletedStatistics(c) ==
    /\ Recording
    /\ ledger.calls[c].pc = "row"
    /\ ledger' = [ledger EXCEPT
                    !.calls[c].pc = "statistics",
                    !.calls[c].txn = CompleteStatistics(@, ledger.calls[c].original_size,
                                                        ledger.calls[c].converted_size)]
    /\ UNCHANGED <<poolVars, clientVars, storeVars, db, probe, orch, hist>>

\* ConversionDatabase.mark_completed: conn.commit() and the return
MarkCompletedCommit(c) ==
    /\ Recording
    /\ ledger.calls[c].pc = "statistics"
    /\ db' = ledger.calls[c].txn
    /\ ledger' = [ledger EXCEPT
                    !.writer = NoCaller,
                    !.calls[c] = NoTransaction,
                    !.returned = @ + 1,
                    !.saved = @ + (ledger.calls[c].original_size
                                   - ledger.calls[c].converted_size)]
    /\ UNCHANGED <<poolVars, clientVars, storeVars, probe, orch, hist>>

\* _get_connection: sqlite3.Error, or the process dies: the transaction is rolled back
MarkCompletedRollback(c) ==
    /\ Recording
    /\ ledger.calls[c].pc \in {"row", "statistics"}
    /\ ledger' = [ledger EXCEPT !.writer = NoCaller, !.calls[c] = NoTransaction]
    /\ UNCHANGED <<poolVars, clientVars, storeVars, db, probe, orch, hist>>

\* _filter_conversions called with the analyses of all files; its SELECTs read
\* the committed rows only, so an open transaction of a caller changes nothing
\* for it and the call is taken between the transactions
FilterCall(frc) ==
    /\ OpenCalls = {}
    /\ LET res == AnalyzeVideos(PathList) IN
       orch' = [orch EXCEPT !.pc = "filter", !.force = frc, !.video_files = PathList,
                            !.analysis_results = res,
                            !.conversions = FilterConversions(db, frc, PathList, res)]
    /\ UNCHANGED <<poolVars, clientVars, storeVars, db, probe, ledger, hist>>

InitDb ==
    /\ PoolInit(1)
    /\ StoreInit
    /\ probe \in [Paths -> Probes]
    /\ ledger = NewLedger
    /\ db = [NewDatabase EXCEPT !.videos = AnalyzeVideos(PathList)]
    /\ orch = NewOrchestrator
    /\ hist = NewHistory

NextDb ==
    \/ \E p \in Paths : DbMarkStarted(p)
    \/ \E c \in Callers, p \in Paths, z \in SizePairs :
          MarkCompletedBegin(c, p, z[1], z[2])
    \/ \E p \in Paths : MarkFailedCall(p)
    \/ \E p \in Paths : MarkSkippedCall(p)
    \/ ClearStatisticsCall
    \/ \E c \in Callers : MarkCompletedStatistics(c)
    \/ \E c \in Callers : MarkCompletedCommit(c)
    \/ \E c \in Callers : MarkCompletedRollback(c)
    \/ \E frc \in BOOLEAN : FilterCall(frc)

SpecDb == InitDb /\ [][NextDb]_vars

\* ------------------------------------------------------------------ claims
\* C1: at every moment the number of busy workers, and the number of jobs that
\* have been handed to a worker and have not returned, is at most max_workers;
\* the busy workers are as many as the jobs being executed.
C1_PoolCapacity ==
    /\ Cardinality(UNION {Attributed(w) : w \in Workers}) <= Cardinality(Workers)
    /\ Cardinality(BusyWorkers) = Cardinality(Executing)
    /\ Cardinality(BusyWorkers) <= Cardinality(Workers)

\* the pool is saturated: every worker executes a job and a further job waits
C1_Witness ==
    /\ BusyWorkers = Workers
    /\ \E t \in TaskIds : tasks[t].pc = "sleeping"

\* C2: for every worker at most one job is inside process() at any instant, and a
\* worker with busy = true has exactly one job attributed to it (the one named
\* by current_task); an idle worker has none.
C2_OneJobPerWorker ==
    \A w \in Workers :
        /\ Cardinality(Attributed(w)) <= 1
        /\ workers[w].is_busy =>
              \E t \in TaskIds : /\ Attributed(w) = {t}
                                 /\ tasks[t].pc = "converting"
                                 /\ workers[w].current_task = tasks[t].path
        /\ ~workers[w].is_busy => Attributed(w) = {}

\* a worker that already finished a job executes its next one while every
\* other worker is busy too
C2_Witness ==
    \E w \in Workers :
        /\ workers[w].is_busy
        /\ workers[w].tasks_completed + workers[w].tasks_failed >= 1
        /\ BusyWorkers = Workers

\* C3: once shutdown() has been called the pool stays shutting down, and no job
\* that has not started begins execution: such a job keeps waiting or resolves
\* to a nil result, and the encoder is never invoked for it.
C3_NoStartAfterShutdown ==
    [][shutdown_event =>
        /\ shutdown_event'
        /\ \A t \in 1 .. Len(tasks') :
              (t \notin TaskIds \/ NotStarted(tasks[t])) =>
                  /\ tasks'[t].pc \in {"new", "sleeping", "done"}
                  /\ tasks'[t].encoder_calls = 0
                  /\ tasks'[t].pc = "done" => tasks'[t].result = "None"]_vars

\* after shutdown a queued job has resolved to nil while another is still executing
C3_Witness ==
    /\ shutdown_event
    /\ \E t \in TaskIds : /\ tasks[t].pc = "done"
                          /\ tasks[t].result = "None"
                          /\ tasks[t].encoder_calls = 0
    /\ \E t \in TaskIds : tasks[t].pc = "converting"

\* this step is the return of a shutdown(wait=true) call
ShutdownWaitReturns ==
    /\ sd_wait'
    /\ client_pc' = "ready"
    /\ client_pc = "shutdown_wait" \/ sd_calls' # sd_calls

\* C4: when shutdown(wait=true) returns, every job that was in flight when it
\* was called has resolved, no worker is busy and no job is still queued.
C4_ShutdownWaits ==
    [][ShutdownWaitReturns =>
        /\ \A t \in sd_snapshot' : tasks'[t].pc = "done"
        /\ \A w \in Workers : ~workers'[w].is_busy
        /\ \A t \in 1 .. Len(tasks') : tasks'[t].pc = "done"]_vars

\* shutdown(wait=true) has returned after waiting for a job that was executing
\* and for one that was queued when it was called
C4_Witness ==
    /\ client_pc = "ready"
    /\ sd_calls = 1
    /\ sd_wait
    /\ \E t \in sd_snapshot : tasks[t].result = "dict"
    /\ \E t \in sd_snapshot : tasks[t].result = "None" /\ tasks[t].encoder_calls = 0

\* C5: when a run with force = false follows a run in which a path was converted
\* successfully, there is exactly one Completed conversion record for that path
\* and the filtering step of the second run leaves the path out.
C5_Idempotent ==
    (orch.run_no >= 2 /\ orch.mode = "run" /\ ~orch.force /\ hist.filtered) =>
        \A p \in hist.enc_ok_prev :
            /\ Cardinality(CompletedRecords(db, p)) = 1
            /\ p \notin Range(orch.conversions)

\* C6: when the batch is over, every job that resolved has been recorded exactly
\* once in the state store and exactly once in the result store, and no job is
\* ever recorded twice.
C6_RecordedOnce ==
    /\ \A p \in Paths : hist.sm_marks[p] <= 1 /\ hist.db_marks[p] <= 1
    /\ orch.pc = "returned" =>
          \A t \in TaskIds :
              tasks[t].pc = "done" =>
                  hist.sm_marks[tasks[t].path] = 1 /\ hist.db_marks[tasks[t].path] = 1

\* C7: a job is submitted to the pool only after the full list of selected
\* paths has been persisted as pending in the state file, and no job is
\* submitted when that save failed.
C7_PendingSavedBeforeSubmit ==
    /\ tasks # <<>> =>
          /\ orch.conversions # <<>>
          /\ IsState(fs.state)
          /\ fs.state.pending = orch.conversions
    /\ orch.exc = "FileSystemError" => tasks = <<>>

\* the pending list of two paths is on disk while the jobs are being submitted
C7_Witness ==
    /\ orch.pc = "submit"
    /\ Len(tasks) = 1
    /\ Len(orch.conversions) = 2
    /\ fs.state.pending = orch.conversions

\* C8: after an interruption that arrived while some jobs were executing and
\* others were queued, the queued jobs are in the persisted pending list, and a
\* subsequent resume() schedules exactly the jobs that were queued.
C8_ResumeSchedulesQueued ==
    /\ (orch.interrupted /\ hist.int_executing # {} /\ orch.pc = "returned") =>
          hist.int_queued \subseteq Range(fs.state.pending)
    /\ (orch.mode = "resume" /\ orch.pc = "returned" /\ hist.prev_interrupted
            /\ hist.prev_int_executing # {} /\ hist.prev_int_queued # {}) =>
          PathsOf(TaskIds) = hist.prev_int_queued

\* C9: when a run was aborted by a persistence error or an interruption, the
\* persisted state is loadable and lists no path as pending whose job completed.
C9_AbortLeavesConsistentState ==
    (orch.pc = "returned" /\ orch.exc \in {"FileSystemError", "KeyboardInterrupt"}) =>
        /\ fs.state # Absent => Load(fs.state) # NoState
        /\ \A p \in hist.enc_ok : p \notin Range(fs.state.pending)

\* C10: whenever the process dies inside save(), at any point, the state file
\* holds either the complete state it held before that save() or the complete
\* state being saved, never a partial one, and load() returns one of the two.
C10_SaveAtomic ==
    /\ fs.state.kind # "partial"
    /\ fs.state \in {sm.prev, sm.new}
    /\ sm.loaded \in {NoState, Load(sm.prev), Load(sm.new)}

\* the process died after the temporary file was written and before the
\* replace: load() returns the previous state, which differs from the new one
C10_Witness ==
    /\ sm.crashed = "written"
    /\ IsState(sm.prev)
    /\ sm.new # sm.prev
    /\ fs.tmp = sm.new
    /\ fs.state = sm.prev
    /\ sm.loaded = sm.prev

\* C11: every state in the state file carries the fields version, pending,
\* completed, failed and skipped, and load() accepts it and returns exactly it.
C11_WrittenStateLoads ==
    IsState(fs.state) =>
        /\ {"version", "pending", "completed", "failed", "skipped"} \subseteq fs.state.keys
        /\ Load(fs.state) = fs.state

\* C12: a step of _filter_conversions puts a file in the schedule if and only
\* if its analysis succeeded with needs_conversion true and force is set or the
\* file has no Completed record; no file left out is counted as a failure.
C12_FilterIff ==
    [][(orch' # orch /\ orch'.pc = "filter") =>
        /\ \A p \in Paths :
              p \in Range(orch'.conversions) <=>
                  /\ orch'.analysis_results[p].ok
                  /\ orch'.analysis_results[p].needs_conversion
                  /\ orch'.force \/ CompletedRecords(db, p) = {}
        /\ orch'.failed = 0]_vars

\* one file has a Completed record and is left out while the other is scheduled
C12_Witness ==
    /\ orch.pc = "filter"
    /\ ~orch.force
    /\ \E p \in Paths, q \in Paths :
          /\ CompletedRecords(db, p) # {}
          /\ orch.analysis_results[p].needs_conversion
          /\ orch.conversions = <<q>>
          /\ q # p

\* C20: whatever the interleaving of the callers, the statistics row counts
\* exactly the mark_completed calls that returned: total_space_saved is the sum
\* of their savings and successful_conversions is their number.
C20_LedgerTotals ==
    /\ db.statistics.total_space_saved = ledger.saved
    /\ db.statistics.successful_conversions = ledger.returned

\* two calls have returned, one of them with a saving, while a third one, made
\* by another caller, has its transaction open
C20_Witness ==
    /\ ledger.returned >= 2
    /\ ledger.saved >= 1
    /\ \E c \in Callers : /\ ledger.calls[c].pc = "statistics"
                          /\ ledger.calls[c].original_size > ledger.calls[c].converted_size

\* C13: jobs are submitted in descending order of the original size of the
\* selected files: a job is never submitted before a larger selected file.
C13_LargestFirst ==
    \A t \in TaskIds :
        /\ \A u \in TaskIds :
              u < t => orch.analysis_results[tasks[u].path].file_size
                          >= orch.analysis_results[tasks[t].path].file_size
        /\ \A p \in Range(orch.conversions) :
              orch.analysis_results[p].file_size
                  > orch.analysis_results[tasks[t].path].file_size
              => \E u \in TaskIds : u < t /\ tasks[u].path = p

\* the scanner returned the smaller file first and the larger one was submitted first
C13_Witness ==
    /\ Len(tasks) = 2
    /\ tasks[1].path = PathList[2]
    /\ tasks[2].path = PathList[1]
    /\ orch.analysis_results[PathList[2]].file_size
          > orch.analysis_results[PathList[1]].file_size

\* C18: no step of a dry run submits a job or changes the state file or the
\* tables videos, conversions and statistics.
C18_DryRunChangesNothing ==
    [][(orch.dry_run /\ orch.pc \notin {"idle", "returned"}) =>
            /\ tasks' = <<>>
            /\ fs' = fs
            /\ db' = db]_vars

\* C14: an invocation that executed its whole batch returns true if and only if
\* the encoder failed for no job of the batch; skipped jobs do not matter.
C14_TrueIffNoFailure ==
    (/\ orch.pc = "returned"
     /\ tasks # <<>>
     /\ \A t \in TaskIds : tasks[t].pc = "done"
     /\ ~orch.interrupted) =>
        (orch.ret = "True" <=> hist.enc_failed = {})

\* C15: when the invocation is over, every path whose encoder failed has moved
\* from pending to failed in the state file, and the failed counter of the
\* statistics has increased by one for each of them.
C15_FailureRecorded ==
    (orch.pc = "returned" /\ ~orch.interrupted /\ hist.enc_failed # {}) =>
        /\ \A p \in hist.enc_failed :
              /\ p \in fs.state.failed
              /\ p \notin Range(fs.state.pending)
        /\ db.statistics.failed_conversions = Cardinality(hist.enc_failed)

\* C16: while the pool is not shutting down, the job that starts on a worker is
\* the earliest submitted job that has not been handed to a worker yet.
C16_StartsInSubmissionOrder ==
    [][\A t \in TaskIds :
          (~shutdown_event /\ tasks[t].pc # "converting" /\ tasks'[t].pc = "converting") =>
              \A u \in 1 .. (t - 1) : tasks[u].pc \notin {"new", "sleeping"}]_vars

\* The pool under a fair event loop: a task that can take a step takes it, and
\* every encoder invocation terminates.
SpecLive ==
    /\ Spec
    /\ \A t \in 1 .. MaxTasks : WF_vars(TaskStep(t))
    /\ \A t \in 1 .. MaxTasks : WF_vars(\E o \in Outcomes : TaskFinish(t, o))

\* C17: every job submitted to the pool eventually resolves its handle.
C17_EveryJobResolves ==
    \A t \in 1 .. MaxTasks :
        (Len(tasks) >= t) ~> (Len(tasks) >= t /\ tasks[t].pc = "done")

\* three jobs on one worker have resolved: two were executed and one, waiting
\* for the worker when the pool was shut down, resolved to None
C17_Witness ==
    /\ Cardinality(Workers) = 1
    /\ Len(tasks) = 3
    /\ \A t \in TaskIds : tasks[t].pc = "done"
    /\ Cardinality({t \in TaskIds : tasks[t].result = "dict"}) = 2
    /\ \E t \in TaskIds : tasks[t].result = "None" /\ tasks[t].encoder_calls = 0

\* C19: when an interrupted run() is over, it has not returned success,
\* shutdown(wait=true) has been called on the pool, every submitted job has
\* resolved, no worker is busy, and no job that had not started when the
\* interruption arrived has been given to the encoder.
C19_InterruptDrains ==
    (orch.interrupted /\ orch.pc = "returned") =>
        /\ orch.ret # "True"
        /\ shutdown_event /\ sd_wait /\ sd_calls >= 1
        /\ \A t \in TaskIds : tasks[t].pc = "done"
        /\ \A w \in Workers : ~workers[w].is_busy
        /\ \A t \in TaskIds : tasks[t].path \in hist.int_queued => tasks[t].encoder_calls = 0

\* the interruption arrived while one job was executing and another one was
\* waiting: run() returned False after the first was converted
C19_Witness ==
    /\ orch.interrupted
    /\ orch.pc = "returned"
    /\ orch.ret = "False"
    /\ \E t \in TaskIds : tasks[t].path \in hist.int_executing /\ tasks[t].result = "dict"
    /\ \E t \in TaskIds : tasks[t].path \in hist.int_queued /\ tasks[t].result = "None"

\* the conversion records with a status
RecordsWith(status) == {i \in DOMAIN db.conversions : db.conversions[i].status = status}

\* C21: the counters of the ledger count the conversion records:
\* successful_conversions is the number of completed records and
\* failed_conversions the number of failed records.
C21_LedgerCountsRecords ==
    ledger.resets = 0 =>
        /\ db.statistics.successful_conversions = Cardinality(RecordsWith("completed"))
        /\ db.statistics.failed_conversions = Cardinality(RecordsWith("failed"))

\* the counters of the ledger, each compared with its next value
CountersNotDecreasing ==
    /\ db'.statistics.successful_conversions >= db.statistics.successful_conversions
    /\ db'.statistics.failed_conversions >= db.statistics.failed_conversions
    /\ db'.statistics.skipped_conversions >= db.statistics.skipped_conversions
    /\ db'.statistics.total_original_size >= db.statistics.total_original_size
    /\ db'.statistics.total_converted_size >= db.statistics.total_converted_size
    /\ db'.statistics.total_space_saved >= db.statistics.total_space_saved

\* C22: no operation other than clear_statistics decreases a counter of the ledger.
C22_CountersMonotone ==
    [][ledger'.resets = ledger.resets => CountersNotDecreasing]_vars

\* the marking operation op of path p has returned
MarkReturned(op, p) == sm.entry /\ sm.op = op /\ sm.path = p /\ ~sm.raised

\* the set of current_state an operation adds the path to
MarkedSet(op, st) ==
    CASE op = "mark_completed" -> st.completed
      [] op = "mark_failed" -> st.failed
      [] op = "mark_skipped" -> st.skipped

SameMarks(s, t) ==
    /\ s.pending = t.pending
    /\ s.completed = t.completed
    /\ s.failed = t.failed
    /\ s.skipped = t.skipped

InvalidFile(c) ==
    \/ c.kind \in {"absent", "unreadable", "partial", "other"}
    \/ c.version # CurrentVersion

\* C25: load() returns None when the state file is absent, unreadable, not a
\* pickled dict, or a dict whose schema version is not the current one.
C25_LoadRejectsInvalid ==
    (sm.op = "load" /\ InvalidFile(fs.state)) => sm.loaded = NoState

\* C26: a step of save() in _execute_conversions either replaces the state file
\* by the new state and goes on to submit, or raises FileSystemError with the
\* state file as it was; a run stopped by FileSystemError has submitted no job,
\* recorded no outcome and returns False.
C26_SaveFailureStopsRun ==
    /\ [][(orch.pc = "save" /\ current_state' # current_state) =>
            \/ /\ fs'.state = OrchestratorState(orch.conversions)
               /\ orch'.pc = "submit"
            \/ /\ fs'.state = fs.state
               /\ orch'.exc = "FileSystemError"
               /\ orch'.pc = "cleanup"]_vars
    /\ [](orch.exc = "FileSystemError" =>
            /\ tasks = <<>>
            /\ hist.sm_marks = NoMarks /\ hist.db_marks = NoMarks
            /\ orch.ret \in {"none", "False"}
            /\ orch.pc = "returned" => orch.ret = "False")

\* a run has stopped on a save that failed in replace(): it returned False, the
\* temporary file holds the two pending paths and there is still no state file
C26_Witness ==
    /\ orch.pc = "returned" /\ orch.exc = "FileSystemError" /\ orch.ret = "False"
    /\ Len(orch.conversions) = 2
    /\ fs.state = Absent
    /\ fs.tmp = OrchestratorState(orch.conversions)

\* the paths whose job has invoked the encoder
Executed == {tasks[t].path : t \in {u \in TaskIds : tasks[u].encoder_calls > 0}}

\* C27: when an invocation that was neither interrupted nor stopped by a
\* persistence error is over and the conversion of one job has failed, every
\* other selected job has been executed and has its outcome recorded in the
\* state file or in the database.
C27_FailureDoesNotAbort ==
    (/\ orch.pc = "returned" /\ ~orch.interrupted
     /\ orch.exc \notin {"FileSystemError", "DatabaseError", "KeyboardInterrupt"}
     /\ hist.enc_failed # {}) =>
        \A p \in Range(orch.conversions) \ hist.enc_failed :
            /\ p \in Executed
            /\ hist.sm_marks[p] + hist.db_marks[p] > 0

\* C28: when an invocation that submitted jobs is over, whether it ended
\* normally or was interrupted, the summary with the successful, failed and
\* skipped counts has been produced.
C28_SummaryAlways ==
    (orch.pc = "returned" /\ tasks # <<>>) => orch.summary

\* C29: a job is handed only to a worker that is not busy at that moment, and
\* no job ever waits on the semaphore of a worker.
C29_NeverHandedToBusyWorker ==
    [][\A t \in TaskIds :
          (tasks[t].pc \in {"new", "sleeping"} /\ tasks'[t].pc \in {"converting", "sem_wait"}) =>
              /\ ~workers[tasks'[t].worker].is_busy
              /\ ~SemLocked(workers[tasks'[t].worker])
              /\ tasks'[t].pc = "converting"]_vars

\* a job that had to wait for a free worker is converting on a worker that has
\* finished another job before, while the next job is still waiting
C29_Witness ==
    \E t \in TaskIds, u \in TaskIds :
        /\ tasks[t].pc = "converting"
        /\ workers[tasks[t].worker].tasks_completed + workers[tasks[t].worker].tasks_failed >= 1
        /\ tasks[u].pc = "sleeping"
        /\ BusyWorkers = Workers

\* C30: when gather() has returned and the loop over the results starts, every
\* job of the batch has finished, and every result is the result dict of its
\* job or None.
C30_ResultsAfterAllJobs ==
    orch.pc = "process" =>
        /\ \A t \in TaskIds : tasks[t].pc = "done"
        /\ \A i \in DOMAIN orch.results : orch.results[i].kind \in {"dict", "None"}

\* the collections of a state that hold path p
StatusesOf(st, p) ==
    (IF p \in Range(st.pending) THEN {"pending"} ELSE {})
        \cup (IF p \in st.completed THEN {"completed"} ELSE {})
        \cup (IF p \in st.failed THEN {"failed"} ELSE {})
        \cup (IF p \in st.skipped THEN {"skipped"} ELSE {})

\* C31: after any sequence of mark_completed, mark_failed and mark_skipped
\* calls every path is in at most one of pending, completed, failed and skipped.
C31_OneStatusPerPath ==
    \A p \in Paths : Cardinality(StatusesOf(current_state, p)) <= 1

\* C32: when Worker.process returns after a ConversionError or an unexpected
\* exception of the encoder, tasks_failed has grown by one, tasks_completed is
\* unchanged and the result is None; after a result dict of the encoder
\* tasks_completed has grown by one and tasks_failed is unchanged; the call
\* always returns a value.
C32_ProcessCountsAndReturns ==
    [][\A t \in TaskIds :
          (tasks[t].pc = "converting" /\ tasks'[t].pc = "done") =>
              LET w == tasks[t].worker
                  o == tasks'[t].outcome IN
              /\ tasks'[t].result \in {"dict", "None"}
              /\ o \in {"conv_error", "unexpected"} =>
                    /\ workers'[w].tasks_failed = workers[w].tasks_failed + 1
                    /\ workers'[w].tasks_completed = workers[w].tasks_completed
                    /\ tasks'[t].result = "None"
              /\ o = "ok" =>
                    /\ workers'[w].tasks_completed = workers[w].tasks_completed + 1
                    /\ workers'[w].tasks_failed = workers[w].tasks_failed
                    /\ tasks'[t].result = "dict"]_vars

\* one worker has returned from a ConversionError, from an unexpected exception
\* and from a successful conversion
C32_Witness ==
    \E w \in Workers :
        /\ workers[w].tasks_failed = 2
        /\ workers[w].tasks_completed = 1
        /\ {tasks[t].outcome : t \in {u \in TaskIds : tasks[u].worker = w}}
              = {"conv_error", "unexpected", "ok"}
\* C33: when Worker.process returns, whatever the outcome of the encoder, the
\* worker is not busy and has no current task; a worker is busy only while a
\* job is inside Worker.process on it.
C33_BusyOnlyWhileProcessing ==
    /\ [][\A t \in TaskIds :
            (tasks[t].pc = "converting" /\ tasks'[t].pc = "done") =>
                /\ ~workers'[tasks[t].worker].is_busy
                /\ workers'[tasks[t].worker].current_task = NoTask]_vars
    /\ [](\A w \in Workers :
            workers[w].is_busy => \E t \in Executing : tasks[t].worker = w)

\* a worker is idle after an unexpected exception of the encoder while the other
\* worker is still converting
C33_Witness ==
    \E w \in Workers, t \in TaskIds, u \in Executing :
        /\ tasks[t].outcome = "unexpected" /\ tasks[t].worker = w
        /\ ~workers[w].is_busy
        /\ tasks[u].worker # w

\* C34: for every worker, is_busy is true exactly when current_task is set.
C34_BusyIffCurrentTask ==
    \A w \in Workers : workers[w].is_busy <=> workers[w].current_task # NoTask

\* one worker is busy with the path of its job as current task, the other has
\* finished a job and has no current task
C34_Witness ==
    \E w \in Workers, v \in Workers, t \in Executing :
        /\ tasks[t].worker = w
        /\ workers[w].current_task = tasks[t].path
        /\ v # w
        /\ workers[v].tasks_completed + workers[v].tasks_failed >= 1
        /\ workers[v].current_task = NoTask

\* the jobs whose handle resolved to a result dict, and those whose encoder
\* invocation failed
ResolvedNonNil == {t \in TaskIds : tasks[t].pc = "done" /\ tasks[t].result = "dict"}
EncoderFailed == {t \in TaskIds : tasks[t].outcome \in {"conv_error", "unexpected"}}
RECURSIVE SumOver(_, _)
SumOver(S, f) ==
    IF S = {} THEN 0
    ELSE LET x == CHOOSE y \in S : TRUE IN f[x] + SumOver(S \ {x}, f)

\* C35: the tasks_completed of get_metrics equals the number of jobs resolved to
\* a non-nil result and its tasks_failed the number of jobs whose encoder
\* invocation failed.
C35_MetricsAgreeWithOutcomes ==
    /\ SumOver(Workers, [w \in Workers |-> workers[w].tasks_completed])
          = Cardinality(ResolvedNonNil)
    /\ SumOver(Workers, [w \in Workers |-> workers[w].tasks_failed])
          = Cardinality(EncoderFailed)
\* the pipeline stage of a position of run() or resume(): 1 Scanning,
\* 2 Analyzing, 3 Filtering, 4 Scheduling (save, submit, gather, the result
\* loop), 5 Summarizing and what follows it
StageOf(o) ==
    CASE o.pc = "scan" -> 1
      [] o.pc = "analyze" -> 2
      [] o.pc = "filter" -> 3
      [] o.pc \in {"save", "submit", "process"} -> 4
      [] o.pc = "load" -> 0
      [] OTHER -> IF o.summary THEN 5 ELSE 6

\* C36: within one invocation the stages are entered in the order Scanning,
\* Analyzing, Filtering, Scheduling, Summarizing, each directly from the one
\* before it and never again after it was left; resume() is never scanning,
\* analysing or filtering, and leaves the analyses and the filter untouched.
C36_StagesInOrder ==
    /\ [][(orch'.run_no = orch.run_no /\ StageOf(orch') # StageOf(orch)) =>
            /\ StageOf(orch') > StageOf(orch)
            /\ StageOf(orch') <= 4 => StageOf(orch') = StageOf(orch) + 1 \/ StageOf(orch) = 0]_vars
    /\ [](orch.mode = "resume" =>
            /\ orch.pc \notin {"scan", "analyze", "filter"}
            /\ ~hist.filtered
            /\ orch.video_files = <<>>)

\* a run has scanned, analysed and filtered and is in the result loop of the
\* scheduling stage with two jobs submitted
C36_Witness ==
    /\ orch.mode = "run" /\ orch.pc = "process"
    /\ hist.filtered
    /\ orch.video_files = PathList
    /\ Len(tasks) = 2

\* C37: when run() has returned, by whatever path, shutdown() of the worker
\* pool has been called, no job is executing and no worker is busy.
C37_PoolShutDownAtReturn ==
    (orch.mode = "run" /\ orch.pc = "returned") =>
        /\ shutdown_event
        /\ sd_calls >= 1
        /\ Executing = {}
        /\ \A w \in Workers : ~workers[w].is_busy

\* run() has returned after a fatal error in the result loop; a job that was
\* converting when the error occurred has been waited for and has finished
C37_Witness ==
    /\ orch.mode = "run" /\ orch.pc = "returned" /\ orch.exc = "TypeError"
    /\ \E t \in TaskIds : tasks[t].outcome = "ok"
    /\ \E t \in TaskIds : tasks[t].pc = "done" /\ tasks[t].encoder_calls = 0

\* ------------------------------------------------ _analyze_videos, stepwise
\* The analyses of one batch are alike, so they are counted: orch holds the
\* locals of _analyze_videos (n files, offset i of the range loop, the length of
\* the current batch), the analyze_video coroutines started and still running,
\* the exceptions of the current batch, and the keys and None values of results.
BatchSize == 50        \* batch_size = 50
MaxFiles == 101        \* the longest list of video files
MaxAnalysisErrors == 2 \* analyses that raise in one call
FileCounts == {1, BatchSize, BatchSize + 1, MaxFiles}

\* len(video_files[i:i + batch_size])
BatchLen(o) == IF o.n - o.i < BatchSize THEN o.n - o.i ELSE BatchSize

\* await asyncio.gather(*tasks, return_exceptions=True) resumes
GatherStartedOnly(o) == o.started = o.batch_len
GatherDone(o) == o.started = o.batch_len /\ o.running = 0

\* for i in range(0, len(video_files), batch_size): the batch and its coroutines
AnalyzeBatchBegin ==
    /\ orch.pc = "batch"
    /\ orch' = IF orch.i >= orch.n
               THEN [orch EXCEPT !.pc = "returned"]
               ELSE [orch EXCEPT !.pc = "gather", !.batch_len = BatchLen(orch),
                                 !.started = 0, !.excs = 0]
    /\ UNCHANGED <<poolVars, clientVars, storeVars, db, probe, ledger, hist>>

\* the event loop starts one of the gathered analyze_video coroutines
AnalysisStart ==
    /\ orch.pc = "gather"
    /\ orch.started < orch.batch_len
    /\ orch' = [orch EXCEPT !.started = @ + 1, !.running = @ + 1]
    /\ UNCHANGED <<poolVars, clientVars, storeVars, db, probe, ledger, hist>>

\* one analyze_video returns its analysis or raises
AnalysisFinish(ok) ==
    /\ orch.running > 0
    /\ ~ok => orch.markers + orch.excs < MaxAnalysisErrors
    /\ orch' = [orch EXCEPT !.running = @ - 1, !.excs = IF ok THEN @ ELSE @ + 1]
    /\ UNCHANGED <<poolVars, clientVars, storeVars, db, probe, ledger, hist>>

\* gather returns; the loop over zip(batch, batch_results) fills results
AnalyzeBatchEnd ==
    /\ orch.pc = "gather"
    /\ GatherDone(orch)
    /\ orch' = [orch EXCEPT !.pc = "batch", !.i = @ + BatchSize,
                            !.entries = @ \cup ((orch.i + 1) .. (orch.i + orch.batch_len)),
                            !.markers = @ + orch.excs]
    /\ UNCHANGED <<poolVars, clientVars, storeVars, db, probe, ledger, hist>>

InitAnalyze ==
    /\ PoolInit(1)
    /\ StoreInit
    /\ ledger = NewLedger
    /\ db = NewDatabase
    /\ hist = NewHistory
    /\ probe = [p \in Paths |-> NeedsConversion(1)]
    /\ \E n \in FileCounts :
          orch = [pc |-> "batch", n |-> n, i |-> 0, batch_len |-> 0, started |-> 0,
                  running |-> 0, excs |-> 0, entries |-> {}, markers |-> 0]

NextAnalyze ==
    \/ AnalyzeBatchBegin
    \/ AnalysisStart
    \/ \E ok \in BOOLEAN : AnalysisFinish(ok)
    \/ AnalyzeBatchEnd

SpecAnalyze == InitAnalyze /\ [][NextAnalyze]_vars

\* C38: never more than one batch of 50 analyses is running, a batch begins
\* only when no analysis of the batch before it is still running, and when
\* _analyze_videos returns every file has its entry in results.
C38_OneBatchAtATime ==
    /\ [](orch.running <= BatchSize)
    /\ [][(orch.pc = "batch" /\ orch'.pc = "gather") => orch.running = 0]_vars
    /\ [](orch.pc = "returned" =>
            /\ orch.entries = 1 .. orch.n
            /\ orch.running = 0)

\* the second batch of a list of 101 files is running in full after an analysis
\* of the first batch failed
C38_Witness ==
    /\ orch.n = MaxFiles
    /\ orch.i = BatchSize
    /\ orch.running = BatchSize
    /\ orch.markers >= 1
    /\ orch.entries = 1 .. BatchSize

\* -------------------------------------------------- Worker._set_cpu_affinity
MaxPoolSize == 6       \* largest settings.concurrent_conversions
MaxCores == 8          \* largest psutil.cpu_count(logical=False)

\* max(1, cpu_count // concurrent_conversions)
CoresPerWorkerNoMax(cpu_count, n) == cpu_count \div n
CoresPerWorker(cpu_count, n) ==
    IF cpu_count \div n < 1 THEN 1 ELSE cpu_count \div n

StartCore(i, cpu_count, n) == (i * CoresPerWorker(cpu_count, n)) % cpu_count

\* min(start_core + cores_per_worker, cpu_count)
EndCore(i, cpu_count, n) ==
    LET e == StartCore(i, cpu_count, n) + CoresPerWorker(cpu_count, n) IN
    IF e < cpu_count THEN e ELSE cpu_count

\* list(range(start_core, end_core))
CpuAffinity(i, cpu_count, n) ==
    LET s == StartCore(i, cpu_count, n)
        e == EndCore(i, cpu_count, n) IN
    IF e <= s THEN <<>> ELSE [j \in 1 .. (e - s) |-> s + j - 1]

\* WorkerPool.__init__ constructs the next Worker, which sets its affinity
WorkerConstructed ==
    LET i == Cardinality(DOMAIN workers) IN
    /\ orch.pc = "pool_init"
    /\ i < orch.concurrent_conversions
    /\ workers' = [w \in 0 .. i |->
                     IF w < i THEN workers[w]
                     ELSE [worker_id |-> i,
                           cpu_affinity |-> CpuAffinity(i, orch.cpu_count,
                                                        orch.concurrent_conversions)]]
    /\ UNCHANGED <<tasks, shutdown_event, active_tasks, clientVars, storeVars, progVars>>

InitAffinity ==
    /\ PoolInit(0)
    /\ StoreInit
    /\ ledger = NewLedger
    /\ db = NewDatabase
    /\ hist = NewHistory
    /\ probe = [p \in Paths |-> NeedsConversion(1)]
    /\ \E n \in 1 .. MaxPoolSize, c \in 1 .. MaxCores :
          orch = [pc |-> "pool_init", concurrent_conversions |-> n, cpu_count |-> c]

NextAffinity == WorkerConstructed

SpecAffinity == InitAffinity /\ [][NextAffinity]_vars

\* C39: the affinity of worker i is the list of coresPerWorker consecutive cores
\* that starts at (i * coresPerWorker) mod totalCores, with coresPerWorker =
\* max(1, totalCores div poolSize); it is not empty and every core of it is in
\* 0 .. totalCores - 1.
C39_AffinityRange ==
    \A i \in DOMAIN workers :
        LET total == orch.cpu_count
            d == total \div orch.concurrent_conversions
            per == IF d > 1 THEN d ELSE 1
            first == (i * per) % total
            a == workers[i].cpu_affinity IN
        /\ Len(a) = per
        /\ \A j \in 1 .. per : a[j] = first + j - 1
        /\ a # <<>>
        /\ \A j \in DOMAIN a : a[j] \in 0 .. (total - 1)

\* more workers than cores: the sixth worker of a pool on four cores wraps
\* around to core 1
C39_Witness ==
    /\ orch.cpu_count = 4 /\ orch.concurrent_conversions = 6
    /\ 5 \in DOMAIN workers /\ workers[5].cpu_affinity = <<1>>
    /\ workers[3].cpu_affinity = <<3>>
====
